---------------------------- MODULE Spec2Model ----------------------------
(***************************************************************************)
(* The two notebooks of the repository as state machines.                  *)
(*                                                                         *)
(* Recipe 7.7 (Bayesian change-point model fitted by MCMC) is a sequence   *)
(* of cells run top to bottom by one kernel: load the storm table,         *)
(* aggregate it per season, declare the priors, the deterministic rate and *)
(* the observed variable, sample, then summarise the traces.  The state is *)
(* the kernel's namespace; pc is the next cell to run.  An exception in a  *)
(* cell ends the run.                                                      *)
(*                                                                         *)
(* Recipe 15.5 (number theory) is a sequence of independent queries; the   *)
(* ones modelled are isprime, primepi and solve_congruence.                *)
(*                                                                         *)
(* Library calls (pandas, PyMC, SymPy) are modelled by what the call at    *)
(* the cited line does according to the library's documented behaviour.    *)
(* Positive real rates are represented by small positive integers and      *)
(* sample means by exact fractions.                                        *)
(***************************************************************************)
EXTENDS Integers, Sequences, FiniteSets, TLC

VARIABLES
    pc,            \* next cell of recipe 7.7, or "sampling", "done", "failed"
    err,           \* exception that ended the run, "none" while running
    ns,            \* names bound in the kernel namespace
    ran,           \* cells started so far, in order (history)
    df,            \* the loaded table: a sequence of rows
    years,         \* cnt.index
    arr,           \* cnt.values
    y0, y1,        \* years[0], years[-1]
    switchpoint,   \* current value of the stochastic
    early_mean,    \* current value of the stochastic
    late_mean,     \* current value of the stochastic
    rate_value,    \* current value of the deterministic rate
    storms,        \* value of the observed stochastic
    mcmc,          \* the sampler: iter, burn, thin, cur (current iteration)
    trace,         \* tallied samples of the three stochastics, and when tallied
    hist_years,    \* the switch point histogram's data: trace + y0
    yp, em, lm,    \* posterior means
    segments,      \* the two horizontal segments of the final plot
    nt_pc,         \* next query of recipe 15.5
    nt_out,        \* results of the queries of recipe 15.5
    marbles        \* a candidate number of marbles tested against the congruences

dataVars  == <<df, years, arr, y0, y1>>
modelVars == <<switchpoint, early_mean, late_mean, rate_value, storms>>
postVars  == <<hist_years, yp, em, lm, segments>>
mcmcVars  == <<pc, err, ns, ran, dataVars, modelVars, mcmc, trace, postVars>>
ntVars    == <<nt_pc, nt_out, marbles>>
vars      == <<mcmcVars, ntVars>>

----------------------------------------------------------------------------
(* Bounds of the model.                                                    *)

FirstSeason == 2000   \* seasons of the bounded tables: FirstSeason .. +NumSeasons-1
NumSeasons  == 3
NumSerials  == 2      \* storm serial numbers 1..NumSerials
MaxRows     == 3      \* rows of a bounded table
NumRates    == 2      \* values standing for the positive reals
ShortIter   == 3      \* a short sampling schedule for the full workflow
ShortBurn   == 1
ShortThin   == 1
MaxMarbles  == 130    \* candidates -MaxMarbles..MaxMarbles

(* The schedule the notebook passes to mcmc.sample.                        *)
Iter == 10000
Burn == 1000
Thin == 10

Basins  == {" NA", " EP"}
Seasons == FirstSeason .. (FirstSeason + NumSeasons - 1)
Serials == 1 .. NumSerials
Rates   == 1 .. NumRates
Rows    == [Basin : Basins, Season : Seasons, Serial_Num : Serials]

(* The tables of n rows.                                                   *)
TablesOfLen(n) == [1 .. n -> Rows]

Row(b, s, n) == [Basin |-> b, Season |-> s, Serial_Num |-> n]

(* A few tables for the full workflow: consecutive seasons with a storm    *)
(* spanning two rows, a missing season, rows of another basin only, and    *)
(* three consecutive seasons given out of order.                           *)
WorkflowTables ==
    { << Row(" NA", FirstSeason, 1), Row(" NA", FirstSeason, 1),
         Row(" EP", FirstSeason, 2), Row(" NA", FirstSeason + 1, 2) >>,
      << Row(" NA", FirstSeason, 1), Row(" NA", FirstSeason + 2, 2),
         Row(" NA", FirstSeason + 2, 1) >>,
      << Row(" EP", FirstSeason, 1) >>,
      << Row(" NA", FirstSeason + 2, 1), Row(" NA", FirstSeason, 1),
         Row(" NA", FirstSeason + 1, 1), Row(" NA", FirstSeason + 1, 2) >> }

----------------------------------------------------------------------------
(* Cells of recipe 7.7, in notebook order.                                 *)

Cells == << "load", "aggregate", "priors", "rate", "storms", "model",
            "sample", "hist", "means", "plot" >>

CellIndex(c) == CHOOSE i \in DOMAIN Cells : Cells[i] = c

NextCellSkipping(c) ==
    LET i == CellIndex(c)
    IN  IF i + 1 >= Len(Cells) THEN "done" ELSE Cells[i + 2]

NextCell(c) ==
    LET i == CellIndex(c)
    IN  IF i = Len(Cells) THEN "done" ELSE Cells[i + 1]

Fraction(n, d) == [num |-> n, den |-> d]
NoFraction     == Fraction(0, 0)

(* The sum of s[lo..hi], by halves.                                        *)
RECURSIVE SumRange(_, _, _)
SumRange(s, lo, hi) ==
    IF lo > hi THEN 0
    ELSE IF lo = hi THEN s[lo]
    ELSE LET mid == (lo + hi) \div 2
         IN  SumRange(s, lo, mid) + SumRange(s, mid + 1, hi)

Sum(s) == SumRange(s, 1, Len(s))

(* ndarray.mean() of an integer array, as an exact fraction.               *)
Mean(s) == Fraction(Sum(s), Len(s))

NoTrace == [switchpoint |-> <<>>, early_mean |-> <<>>, late_mean |-> <<>>,
            at |-> <<>>]
NoMcmc  == [iter |-> 0, burn |-> 0, thin |-> 1, cur |-> 0]

InitMCMC ==
    /\ pc = "load" /\ err = "none" /\ ns = {} /\ ran = <<>>
    /\ df = <<>> /\ years = <<>> /\ arr = <<>> /\ y0 = 0 /\ y1 = 0
    /\ switchpoint = 0 /\ early_mean = 0 /\ late_mean = 0
    /\ rate_value = <<>> /\ storms = <<>>
    /\ mcmc = NoMcmc /\ trace = NoTrace
    /\ hist_years = <<>> /\ yp = NoFraction /\ em = NoFraction /\ lm = NoFraction
    /\ segments = <<>>

(* Control part of a cell that runs to its end.                            *)
Advance(c, names) ==
    /\ pc = c
    /\ pc' = NextCell(c)
    /\ ran' = Append(ran, c)
    /\ ns' = ns \cup names
    /\ err' = err

RaiseAndContinue(c, names, e) ==
    /\ pc = c
    /\ pc' = NextCell(c)
    /\ ran' = Append(ran, c)
    /\ ns' = ns \cup names
    /\ err' = e

(* Control part of a cell that raises after binding `names`.               *)
Raise(c, names, e) ==
    /\ pc = c
    /\ pc' = "failed"
    /\ ran' = Append(ran, c)
    /\ ns' = ns \cup names
    /\ err' = e

----------------------------------------------------------------------------
(* Cell 2: df = pd.read_csv(...)                                           *)

Load(tables) ==
    /\ Advance("load", {"df"})
    /\ df' \in tables
    /\ UNCHANGED <<years, arr, y0, y1, modelVars, mcmc, trace, postVars, ntVars>>

LoadErrors == {"IOError", "ParserError"}

LoadFail ==
    /\ \E e \in LoadErrors : Raise("load", {}, e)
    /\ UNCHANGED <<dataVars, modelVars, mcmc, trace, postVars, ntVars>>

----------------------------------------------------------------------------
(* Cell 3: cnt = df[df['Basin'] == ' NA'].groupby('Season')                *)
(*               ['Serial_Num'].nunique()                                  *)
(*         years = cnt.index; y0, y1 = years[0], years[-1]; arr = cnt.values*)

(* df[df['Basin'] == b]: the rows whose Basin is b, in table order.        *)
SelectBasin(t, b) ==
    LET Keep(r) == r.Basin = b IN SelectSeq(t, Keep)

(* The ascending sequence of the elements of a set of integers: groupby    *)
(* sorts the group keys.                                                   *)
RECURSIVE SortAsc(_)
SortAsc(S) ==
    IF S = {} THEN <<>>
    ELSE LET m == CHOOSE x \in S : \A y \in S : x <= y
         IN  <<m>> \o SortAsc(S \ {m})

GroupKeys(t) == SortAsc({t[i].Season : i \in DOMAIN t})

(* The rows of one group, and one column of a table.                       *)
Group(t, k) ==
    LET Keep(r) == r.Season = k IN SelectSeq(t, Keep)

Column(t, name) == [i \in DOMAIN t |-> t[i][name]]

countRows(col) == Len(col)

(* Series.nunique(): the number of distinct values of a column.            *)
nunique(col) == Cardinality({col[i] : i \in DOMAIN col})

(* The aggregated series: its index and its values.                        *)
Cnt(t) ==
    LET na   == SelectBasin(t, " NA")
        keys == GroupKeys(na)
    IN  [index  |-> keys,
         values |-> [i \in DOMAIN keys |->
                        nunique(Column(Group(na, keys[i]), "Serial_Num"))]]

Aggregate ==
    LET cnt == Cnt(df)
    IN  /\ cnt.index # <<>>
        /\ Advance("aggregate", {"cnt", "years", "y0", "y1", "arr"})
        /\ years' = cnt.index
        /\ y0' = cnt.index[1]
        /\ y1' = cnt.index[Len(cnt.index)]
        /\ arr' = cnt.values
        /\ UNCHANGED <<df, modelVars, mcmc, trace, postVars, ntVars>>

(* years[0] of an empty index raises IndexError, before arr is bound.      *)
AggregateFail ==
    LET cnt == Cnt(df)
    IN  /\ cnt.index = <<>>
        /\ Raise("aggregate", {"cnt", "years"}, "IndexError")
        /\ years' = cnt.index
        /\ UNCHANGED <<df, arr, y0, y1, modelVars, mcmc, trace, postVars, ntVars>>

----------------------------------------------------------------------------
(* Cell 4: the priors.  switchpoint is DiscreteUniform on lower..upper,    *)
(* both ends included, with lower=0 and upper=len(arr); the two means are  *)
(* Exponential, so positive.  A stochastic's initial value is a draw from  *)
(* its prior.                                                              *)

SwitchSupport == 0 .. Len(arr)
MeanSupport   == Rates

Priors ==
    /\ Advance("priors", {"switchpoint", "early_mean", "late_mean"})
    /\ switchpoint' \in SwitchSupport
    /\ early_mean' \in MeanSupport
    /\ late_mean' \in MeanSupport
    /\ UNCHANGED <<dataVars, rate_value, storms, mcmc, trace, postVars, ntVars>>

----------------------------------------------------------------------------
(* Cell 5: the deterministic rate.                                         *)
(*     out = np.empty(len(arr)); out[:s] = e; out[s:] = l; return out      *)

Uninitialised == -1

(* out[lo:hi] = v for 0 <= lo, hi: positions lo+1 .. hi of the sequence,   *)
(* the slice being clipped to the array.                                   *)
SetSlice(out, lo, hi, v) ==
    [i \in DOMAIN out |-> IF lo < i /\ i <= hi THEN v ELSE out[i]]

rateOffByOne(s, e, l) ==
    LET n   == Len(arr)
        out == [i \in 1 .. n |-> Uninitialised]
    IN  SetSlice(SetSlice(out, 0, s + 1, e), s + 1, n, l)

rate(s, e, l) ==
    LET n   == Len(arr)
        out == [i \in 1 .. n |-> Uninitialised]
    IN  SetSlice(SetSlice(out, 0, s, e), s, n, l)

RateCell ==
    /\ Advance("rate", {"rate"})
    /\ rate_value' = rate(switchpoint, early_mean, late_mean)
    /\ UNCHANGED <<dataVars, switchpoint, early_mean, late_mean, storms,
                   mcmc, trace, postVars, ntVars>>

(* Cell 6: storms = pymc.Poisson('storms', mu=rate, value=arr,             *)
(*                               observed=True)                            *)
StormsCell ==
    /\ Advance("storms", {"storms"})
    /\ storms' = arr
    /\ UNCHANGED <<dataVars, switchpoint, early_mean, late_mean, rate_value,
                   mcmc, trace, postVars, ntVars>>

(* Cell 7a: model = pymc.Model([...])                                      *)
ModelCell ==
    /\ Advance("model", {"model"})
    /\ UNCHANGED <<dataVars, modelVars, mcmc, trace, postVars, ntVars>>

----------------------------------------------------------------------------
(* Cell 7b: mcmc = pymc.MCMC(model); mcmc.sample(iter, burn, thin)         *)

(* The stochastics of the model and whether each is observed.              *)
Observed == [switchpoint |-> FALSE, early_mean |-> FALSE, late_mean |-> FALSE,
             storms |-> TRUE]

StepEveryStochastic == DOMAIN Observed

(* The sampler assigns a step method to every stochastic that is not       *)
(* observed; an observed stochastic keeps the value it was given.          *)
StepMethodTargets == {name \in DOMAIN Observed : ~Observed[name]}

(* The values one step may leave in a stochastic: its current value when   *)
(* the proposal is rejected, any value of its support when accepted.       *)
StepValues(name, cur, support, accepts) ==
    IF name \in StepMethodTargets
    THEN (IF FALSE \in accepts THEN {cur} ELSE {})
         \cup (IF TRUE \in accepts THEN support ELSE {})
    ELSE {cur}

CountArrays == [DOMAIN storms -> 0 .. NumSerials]

TallyAfterBurn(i, burn, thin) == i > burn /\ i % thin = 0

(* Iteration i (counted from 0) is recorded when the burn-in is over and   *)
(* i is a multiple of thin.                                                *)
ShouldTally(i, burn, thin) == i >= burn /\ i % thin = 0

Tally(t, i, s, e, l) ==
    [switchpoint |-> Append(t.switchpoint, s),
     early_mean  |-> Append(t.early_mean, e),
     late_mean   |-> Append(t.late_mean, l),
     at          |-> Append(t.at, i)]

SampleCall(iter, burn, thin) ==
    /\ pc = "sample"
    /\ pc' = "sampling"
    /\ ran' = Append(ran, "sample")
    /\ ns' = ns \cup {"mcmc"}
    /\ mcmc' = [iter |-> iter, burn |-> burn, thin |-> thin, cur |-> 0]
    /\ trace' = NoTrace
    /\ UNCHANGED <<err, dataVars, modelVars, postVars, ntVars>>

(* One iteration of the sampling loop: every step method steps, the        *)
(* deterministic follows its parents, and the iteration is tallied if due. *)
SampleIter(accepts) ==
    /\ pc = "sampling"
    /\ mcmc.cur < mcmc.iter
    /\ \E s \in StepValues("switchpoint", switchpoint, SwitchSupport, accepts),
          e \in StepValues("early_mean", early_mean, MeanSupport, accepts),
          l \in StepValues("late_mean", late_mean, MeanSupport, accepts),
          o \in StepValues("storms", storms, CountArrays, accepts) :
            /\ switchpoint' = s
            /\ early_mean' = e
            /\ late_mean' = l
            /\ storms' = o
            /\ rate_value' = rate(s, e, l)
            /\ trace' = IF ShouldTally(mcmc.cur, mcmc.burn, mcmc.thin)
                        THEN Tally(trace, mcmc.cur, s, e, l)
                        ELSE trace
    /\ mcmc' = [mcmc EXCEPT !.cur = @ + 1]
    /\ UNCHANGED <<pc, err, ns, ran, dataVars, postVars, ntVars>>

SampleReturn ==
    /\ pc = "sampling"
    /\ mcmc.cur = mcmc.iter
    /\ pc' = NextCell("sample")
    /\ UNCHANGED <<err, ns, ran, dataVars, modelVars, mcmc, trace, postVars, ntVars>>

----------------------------------------------------------------------------
(* Cell 9: plt.hist(mcmc.trace('switchpoint')[:] + y0, 15)                 *)
Hist ==
    /\ Advance("hist", {})
    /\ hist_years' = [k \in DOMAIN trace.switchpoint |-> trace.switchpoint[k] + y0]
    /\ UNCHANGED <<dataVars, modelVars, mcmc, trace, yp, em, lm, segments, ntVars>>

(* Cell 10: yp = y0 + trace('switchpoint').mean(), em, lm                  *)
PlusInt(n, f) == Fraction(n * f.den + f.num, f.den)

Means ==
    /\ Advance("means", {"yp", "em", "lm"})
    /\ yp' = PlusInt(y0, Mean(trace.switchpoint))
    /\ em' = Mean(trace.early_mean)
    /\ lm' = Mean(trace.late_mean)
    /\ UNCHANGED <<dataVars, modelVars, mcmc, trace, hist_years, segments, ntVars>>

(* Cell 11: plt.plot([y0, yp], [em, em]); plt.plot([yp, y1], [lm, lm])     *)
Plot ==
    /\ Advance("plot", {})
    /\ segments' = << [from |-> Fraction(y0, 1), to |-> yp, level |-> em],
                      [from |-> yp, to |-> Fraction(y1, 1), level |-> lm] >>
    /\ UNCHANGED <<dataVars, modelVars, mcmc, trace, hist_years, yp, em, lm, ntVars>>

----------------------------------------------------------------------------
(* Recipe 15.5: nt.isprime(2011), nt.primepi(2011),                        *)
(* solve_congruence((1, 3), (2, 4), (3, 5)).                               *)

QueryN == 2011

(* Primality by trial division up to the square root.                      *)
isprime(n) == n >= 2 /\ \A d \in 2 .. n - 1 : d * d > n \/ n % d # 0

(* primepi(n): the number of primes less than or equal to n.               *)
primepi(n) == Cardinality({p \in 2 .. n : isprime(p)})

IsPrimeQuery == isprime(QueryN)
PrimePiQuery == primepi(QueryN)

CongruencesWrong == << <<1, 3>>, <<2, 4>>, <<4, 5>> >>

(* The (remainder, modulus) pairs passed to solve_congruence.              *)
Congruences == << <<1, 3>>, <<2, 4>>, <<3, 5>> >>

Abs(n) == IF n < 0 THEN -n ELSE n

RECURSIVE Gcd(_, _)
Gcd(a, b) == IF b = 0 THEN Abs(a) ELSE Gcd(b, a % Abs(b))

(* An inverse of a modulo c (gcd(a, c) = 1), taken in 0 .. c-1; the        *)
(* combined residue depends on it only modulo c.                           *)
Invert(a, c) == CHOOSE k \in 0 .. c - 1 : (a * k) % c = 1 % c

NoSolution == <<0, 0>>

(* combine(c1, c2): the pair (a, m) such that n = a + i*m are the numbers  *)
(* that satisfy both n = a1 (mod m1) and n = a2 (mod m2); NoSolution when  *)
(* there is none.                                                          *)
Combine(c1, c2) ==
    LET a1 == c1[1]
        m1 == c1[2]
        a2 == c2[1]
        m2 == c2[2]
        g  == Gcd(Gcd(m1, a2 - a1), m2)
        a  == m1 \div g
        b  == (a2 - a1) \div g
        c  == m2 \div g
    IN  IF a # 1 /\ Gcd(a, c) # 1 THEN NoSolution
        ELSE LET b2 == IF a # 1 THEN b * Invert(a, c) ELSE b
             IN  <<a1 + m1 * b2, m1 * c>>

RECURSIVE CombineAll(_, _)
CombineAll(rv, rm) ==
    IF rv = NoSolution \/ rm = <<>> THEN rv
    ELSE CombineAll(Combine(rv, Head(rm)), Tail(rm))

(* solve_congruence for pairs with distinct positive moduli: remainders    *)
(* are reduced, the pairs are combined from (0, 1) on, and the result is   *)
(* (n % m, m).                                                             *)
solve_congruence(pairs) ==
    LET rm == [i \in DOMAIN pairs |-> <<pairs[i][1] % pairs[i][2], pairs[i][2]>>]
        rv == CombineAll(<<0, 1>>, rm)
    IN  IF rv = NoSolution THEN NoSolution ELSE <<rv[1] % rv[2], rv[2]>>

SolveQuery == solve_congruence(Congruences)

(* Whether n marbles leave the stated remainder in every arrangement.      *)
Satisfies(n, pairs) == \A i \in DOMAIN pairs : n % pairs[i][2] = pairs[i][1]

NoResults == [isprime |-> FALSE, primepi |-> 0, solve |-> NoSolution, fits |-> FALSE]

InitNT ==
    /\ nt_pc = "isprime"
    /\ nt_out = NoResults
    /\ marbles \in -MaxMarbles .. MaxMarbles

(* The number theory notebook is not run.                                  *)
IdleNT ==
    /\ nt_pc = "isprime"
    /\ nt_out = NoResults
    /\ marbles = 0

NTIsPrime ==
    /\ nt_pc = "isprime"
    /\ nt_pc' = "primepi"
    /\ nt_out' = [nt_out EXCEPT !.isprime = IsPrimeQuery]
    /\ UNCHANGED <<marbles, mcmcVars>>

NTPrimePi ==
    /\ nt_pc = "primepi"
    /\ nt_pc' = "solve"
    /\ nt_out' = [nt_out EXCEPT !.primepi = PrimePiQuery]
    /\ UNCHANGED <<marbles, mcmcVars>>

NTSolve ==
    /\ nt_pc = "solve"
    /\ nt_pc' = "marbles"
    /\ nt_out' = [nt_out EXCEPT !.solve = SolveQuery]
    /\ UNCHANGED <<marbles, mcmcVars>>

(* The candidate is tested against the problem's statement.                *)
NTMarbles ==
    /\ nt_pc = "marbles"
    /\ nt_pc' = "done"
    /\ nt_out' = [nt_out EXCEPT !.fits = Satisfies(marbles, Congruences)]
    /\ UNCHANGED <<marbles, mcmcVars>>

----------------------------------------------------------------------------
(* Specifications.                                                         *)

(* The whole of recipe 7.7 on a few tables, with a short schedule.         *)
Init == InitMCMC /\ IdleNT

Next ==
    \/ Load(WorkflowTables)
    \/ LoadFail
    \/ Aggregate
    \/ AggregateFail
    \/ Priors
    \/ RateCell
    \/ StormsCell
    \/ ModelCell
    \/ SampleCall(ShortIter, ShortBurn, ShortThin)
    \/ SampleIter(BOOLEAN)
    \/ SampleReturn
    \/ Hist
    \/ Means
    \/ Plot

Spec == Init /\ [][Next]_vars

(* Loading and aggregation on every bounded table.                         *)
NextData ==
    \/ \E n \in 0 .. MaxRows : Load(TablesOfLen(n))
    \/ LoadFail
    \/ Aggregate
    \/ AggregateFail

SpecData == Init /\ [][NextData]_vars

(* Recipe 7.7 with the notebook's schedule.  Which iterations are tallied  *)
(* does not depend on the values drawn, so the chain followed is the one   *)
(* in which every proposal is rejected.                                    *)
ScheduleTables ==
    { << Row(" NA", FirstSeason, 1), Row(" NA", FirstSeason + 1, 1) >> }

NextSchedule ==
    \/ Load(ScheduleTables)
    \/ Aggregate
    \/ Priors
    \/ RateCell
    \/ StormsCell
    \/ ModelCell
    \/ SampleCall(Iter, Burn, Thin)
    \/ SampleIter({FALSE})
    \/ SampleReturn
    \/ Hist
    \/ Means
    \/ Plot

SpecSchedule == Init /\ [][NextSchedule]_vars

(* Recipe 15.5 for every bounded candidate.                                *)
InitNumberTheory == InitMCMC /\ InitNT

NextNT ==
    \/ NTIsPrime
    \/ NTPrimePi
    \/ NTSolve
    \/ NTMarbles

SpecNT == InitNumberTheory /\ [][NextNT]_vars

----------------------------------------------------------------------------
(* Properties.                                                             *)

Started(c) == \E i \in DOMAIN ran : ran[i] = c

(* C1: once rate is defined, its value has exactly len(arr) entries, every *)
(* entry at a 0-based index i < switchpoint equals early_mean and every    *)
(* entry at i >= switchpoint equals late_mean, for every switchpoint in    *)
(* 0..len(arr): two contiguous segments [0, s) and [s, n) covering all n   *)
(* years.                                                                  *)
C1_RatePiecewise ==
    "rate" \in ns =>
        /\ switchpoint \in 0 .. Len(arr)
        /\ DOMAIN rate_value = 1 .. Len(arr)
        /\ \A i \in 0 .. Len(arr) - 1 :
              rate_value[i + 1] = IF i < switchpoint THEN early_mean ELSE late_mean

C1_Witness ==
    /\ pc = "sampling" /\ mcmc.cur > 0
    /\ 0 < switchpoint /\ switchpoint < Len(arr)
    /\ early_mean # late_mean

(* C2: mcmc.sample(iter=10000, burn=1000, thin=10) never runs more than    *)
(* 10000 iterations and returns after exactly 10000; the tallied           *)
(* iterations are 1000, 1010, ..., so the first 1000 are discarded and     *)
(* every 10th of the rest is kept; the three traces hold 900 samples each. *)
C2_ScheduleKeeps900 ==
    /\ mcmc.cur <= mcmc.iter
    /\ Started("sample") => mcmc.iter = 10000 /\ mcmc.burn = 1000 /\ mcmc.thin = 10
    /\ (Started("sample") /\ pc # "sampling") =>
          /\ mcmc.cur = 10000
          /\ Len(trace.switchpoint) = 900
          /\ Len(trace.early_mean) = 900
          /\ Len(trace.late_mean) = 900
          /\ Len(trace.at) = (Iter - Burn) \div Thin
          /\ \A k \in DOMAIN trace.at : trace.at[k] = 1000 + 10 * (k - 1)

C2_Witness ==
    /\ pc = "done"
    /\ Len(trace.switchpoint) = 900
    /\ trace.at[1] = 1000 /\ trace.at[900] = 9990

(* C3: after aggregation the index holds exactly the seasons of the rows   *)
(* whose Basin is ' NA', in strictly ascending order, the count of a       *)
(* season is the number of distinct Serial_Num among the ' NA' rows of     *)
(* that season, and y0 and y1 are the smallest and the largest season.     *)
NARows(season) ==
    {j \in DOMAIN df : df[j].Basin = " NA" /\ df[j].Season = season}

C4_LoadFailureEndsRun ==
    err \in LoadErrors =>
        /\ pc = "failed"
        /\ ran = <<"load">>
        /\ ns = {}
        /\ df = <<>> /\ years = <<>> /\ arr = <<>>
        /\ rate_value = <<>> /\ storms = <<>>
        /\ mcmc = NoMcmc /\ trace = NoTrace
        /\ hist_years = <<>> /\ yp = NoFraction /\ segments = <<>>

C4_Witness == pc = "failed" /\ err = "IOError"

(* C5: the cells started so far are always a prefix of the notebook's      *)
(* order; sampling starts only once storms is bound to the aggregated      *)
(* counts; yp, em and lm exist only after the sampler has run all its      *)
(* iterations and returned.                                                *)
C5_StrictOrder ==
    /\ Len(ran) <= Len(Cells)
    /\ \A i \in DOMAIN ran : ran[i] = Cells[i]
    /\ pc \in {Cells[i] : i \in DOMAIN Cells} => Len(ran) = CellIndex(pc) - 1
    /\ (Started("sample") \/ pc = "sampling") =>
          /\ {"arr", "storms", "rate", "model"} \subseteq ns
          /\ storms = arr
    /\ "yp" \in ns =>
          /\ {"em", "lm"} \subseteq ns
          /\ pc # "sampling"
          /\ mcmc.cur = mcmc.iter /\ mcmc.iter = ShortIter

C5_Witness == pc = "done" /\ ran = Cells /\ "yp" \in ns

(* C6: solve_congruence returns (58, 60), and a candidate satisfies the    *)
(* three congruences exactly if it differs from 58 by a multiple of 60; in *)
(* particular 58 is the only solution in 0..59.                            *)
C6_Solutions58Mod60 ==
    /\ nt_pc \in {"marbles", "done"} => nt_out.solve = <<58, 60>>
    /\ nt_pc = "done" =>
          /\ nt_out.fits <=> (marbles - 58) % 60 = 0
          /\ (nt_out.fits /\ marbles \in 0 .. 59) => marbles = 58
          /\ marbles = 58 => nt_out.fits

C6_Witness == nt_pc = "done" /\ marbles = 118 /\ nt_out.fits

(* C7 (as claimed): the value of nt.primepi(2011) is the number of primes  *)
(* p with p < 2011.                                                        *)
PrimesBelowQuery == Cardinality({p \in 2 .. QueryN - 1 : isprime(p)})

C7_PrimePiCountsBelow ==
    nt_pc \in {"solve", "marbles", "done"} => nt_out.primepi = PrimesBelowQuery

(* C8 (as claimed): with consecutive seasons the estimated switch year     *)
(* satisfies y0 <= yp <= y1.                                               *)
Consecutive(ys) == \A i \in 1 .. Len(ys) - 1 : ys[i + 1] = ys[i] + 1

C8_EstimateWithinYears ==
    ("yp" \in ns /\ Consecutive(years)) =>
        /\ y0 * yp.den <= yp.num
        /\ yp.num <= y1 * yp.den

(* C9 (as claimed): every switch index s < len(arr) is reported as the     *)
(* year y0 + s = years[s], also when a season is missing from the counts.  *)
C9_SwitchYearIsSeason ==
    Started("hist") =>
        \A k \in DOMAIN hist_years :
            trace.switchpoint[k] < Len(arr) =>
                hist_years[k] = years[trace.switchpoint[k] + 1]

(* C10: a step taken while sampling leaves the table, the aggregated       *)
(* counts, the year index, y0, y1 and the observed value as they were; and *)
(* from the start of sampling on the observed value is arr and the rate is *)
(* the piecewise function of the current switchpoint and means.            *)
C10_SamplingFrame ==
    /\ [][pc = "sampling" =>
            UNCHANGED <<df, years, arr, y0, y1, storms, hist_years, yp, em, lm,
                        segments, ns, err>>]_vars
    /\ [](Started("sample") =>
            /\ storms = arr
            /\ rate_value = rate(switchpoint, early_mean, late_mean))

C10_Witness ==
    /\ pc = "sampling"
    /\ Len(trace.switchpoint) = 2
    /\ trace.switchpoint[1] # trace.switchpoint[2]
    /\ trace.early_mean[1] # trace.early_mean[2]
    /\ storms = arr

=============================================================================
